---- MODULE Spec2Model ----
(***************************************************************************)
(* Model of log-report-automation: the report_utils library pipeline       *)
(* (load_logs, validate_logs, apply_filters, build_*, write_excel_report)  *)
(* and the command-line pipeline (cli.run -> main.main -> load_csv,        *)
(* apply_filters, print_stats, write_excel_report).                        *)
(*                                                                         *)
(* A CSV cell is a string; NA is the NaN/None that pandas.read_csv yields  *)
(* for an empty cell.  A parsed timestamp or number is an option value:    *)
(* <<>> is the missing marker (NaT / NaN), <<v>> a present value.          *)
(***************************************************************************)
EXTENDS Integers, Sequences, FiniteSets, TLC

\* Largest number of data rows of an input file.
MaxRows == 3

NA == "<NA>"
None == "<None>"

Range(s) == {s[i] : i \in 1..Len(s)}

REQUIRED_COLUMNS == <<"timestamp", "service", "level", "message", "response_ms">>

\* A column label beyond the required ones.
ExtraColumn == "host"

ColumnLabels == Range(REQUIRED_COLUMNS) \cup {ExtraColumn}

(***************************************************************************)
(* Input vocabulary                                                        *)
(***************************************************************************)
RawRows ==
    { [timestamp |-> "2025-01-01 10:00:00", service |-> "api", level |-> "INFO",
       message |-> "ok", response_ms |-> "12"],
      [timestamp |-> "2025-01-01 09:00:00", service |-> "api", level |-> "error",
       message |-> "boom", response_ms |-> "N/A"],
      [timestamp |-> "2025-01-02 08:00:00", service |-> "db", level |-> "ERROR",
       message |-> NA, response_ms |-> "0"],
      [timestamp |-> "not-a-date", service |-> "API", level |-> "info",
       message |-> "ok", response_ms |-> "12"],
      [timestamp |-> "2025-01-01 10:00:00", service |-> NA, level |-> NA,
       message |-> "late", response_ms |-> "abc"],
      [timestamp |-> NA, service |-> "db", level |-> "error_count",
       message |-> "ok", response_ms |-> NA] }

RECURSIVE SeqsUpTo(_, _)
SeqsUpTo(S, n) ==
    IF n = 0 THEN {<<>>}
    ELSE LET shorter == SeqsUpTo(S, n - 1)
         IN  shorter \cup {Append(s, x) : s \in {t \in shorter : Len(t) = n - 1}, x \in S}

\* The files an input path can name: none, one lacking a required column (its
\* data rows are never read: validation raises first), or one with every
\* required column, with or without an extra column, and up to MaxRows rows.
InputFiles ==
    {[exists |-> FALSE, columns |-> {}, rows |-> <<>>]}
    \cup {[exists |-> TRUE, columns |-> c, rows |-> <<>>] :
            c \in {x \in SUBSET ColumnLabels : ~(Range(REQUIRED_COLUMNS) \subseteq x)}}
    \cup {[exists |-> TRUE, columns |-> c, rows |-> r] :
            c \in {Range(REQUIRED_COLUMNS), ColumnLabels},
            r \in SeqsUpTo(RawRows, MaxRows)}

ServiceArgs == {None, "", "api"}
LevelArgs == {None, "", "error", "ERROR"}

(***************************************************************************)
(* Conversions (pandas / str)                                              *)
(***************************************************************************)
\* str.upper() on the labels of the vocabulary.
Upper(s) ==
    CASE s = "error" -> "ERROR"
      [] s = "info" -> "INFO"
      [] s = "nan" -> "NAN"
      [] s = "api" -> "API"
      [] s = "db" -> "DB"
      [] s = "error_count" -> "ERROR_COUNT"
      [] OTHER -> s

\* Series.astype(str): a null cell becomes the text "nan".
AsStr(s) == IF s = NA THEN "nan" ELSE s

\* pd.to_datetime(errors="coerce"): NaT for a null or unparseable cell.
to_datetime(s) ==
    CASE s = "2025-01-01 10:00:00" -> <<[date |-> 20250101, time |-> 100000]>>
      [] s = "2025-01-01 09:00:00" -> <<[date |-> 20250101, time |-> 90000]>>
      [] s = "2025-01-02 08:00:00" -> <<[date |-> 20250102, time |-> 80000]>>
      [] OTHER -> <<>>

\* A faulty variant: a failed coercion filled with zero.
ToNumericZeroFill(s) ==
    CASE s = "12" -> <<12>>
      [] OTHER -> <<0>>

\* pd.to_numeric(errors="coerce"): NaN for a null or non-numeric cell.
to_numeric(s) ==
    CASE s = "12" -> <<12>>
      [] s = "0" -> <<0>>
      [] OTHER -> <<>>

isna(v) == v = <<>>

(***************************************************************************)
(* Exceptions: the type raised and the message, as its sequence of parts.  *)
(***************************************************************************)
NoError == [type |-> "none", message |-> <<>>]

FileNotFound == [type |-> "FileNotFoundError", message |-> <<"Input file not found: ", "path">>]

(***************************************************************************)
(* report_utils: load + validate                                           *)
(***************************************************************************)
\* A faulty variant: the membership test the wrong way round, listing the frame's
\* columns that are not required ones.
UnexpectedColumns(columns) ==
    SelectSeq(<<ExtraColumn>> \o REQUIRED_COLUMNS,
              LAMBDA c : c \in columns /\ c \notin Range(REQUIRED_COLUMNS))

\* The list `missing` of validate_logs.
MissingColumns(columns) == SelectSeq(REQUIRED_COLUMNS, LAMBDA c : c \notin columns)

\* validate_logs(df), given df.columns: the exception raised, or NoError.
validate_logs(columns) ==
    LET missing == MissingColumns(columns)
    IN  IF Len(missing) > 0
        THEN [type |-> "ValueError",
              message |-> <<"CSV schema invalid. Missing columns: ">> \o missing
                          \o <<"\nExpected columns: ">> \o REQUIRED_COLUMNS]
        ELSE NoError

\* pd.read_csv: the frame's rows, each remembering its line in the file (src).
read_csv(f) ==
    [i \in 1..Len(f.rows) |->
        [src |-> i, timestamp |-> f.rows[i].timestamp, service |-> f.rows[i].service,
         level |-> f.rows[i].level, message |-> f.rows[i].message,
         response_ms |-> f.rows[i].response_ms]]

TsLess(a, b) == a.date < b.date \/ (a.date = b.date /\ a.time < b.time)

\* A faulty variant: a merge that takes the right run's row on a tie (not stable).
RECURSIVE MergeRightOnTies(_, _)
MergeRightOnTies(l, r) ==
    IF Len(l) = 0 THEN r
    ELSE IF Len(r) = 0 THEN l
    ELSE IF TsLess(l[1].timestamp[1], r[1].timestamp[1])
         THEN <<l[1]>> \o MergeRightOnTies(Tail(l), r)
         ELSE <<r[1]>> \o MergeRightOnTies(l, Tail(r))

\* The merge of a stable merge sort: on a tie the left run goes first.
RECURSIVE Merge(_, _)
Merge(l, r) ==
    IF Len(l) = 0 THEN r
    ELSE IF Len(r) = 0 THEN l
    ELSE IF TsLess(r[1].timestamp[1], l[1].timestamp[1])
         THEN <<r[1]>> \o Merge(l, Tail(r))
         ELSE <<l[1]>> \o Merge(Tail(l), r)

RECURSIVE MergeSort(_)
MergeSort(s) ==
    IF Len(s) <= 1 THEN s
    ELSE LET m == Len(s) \div 2
         IN  Merge(MergeSort(SubSeq(s, 1, m)), MergeSort(SubSeq(s, m + 1, Len(s))))

\* DataFrame.sort_values("timestamp", kind="mergesort"): the rows with a
\* timestamp in stable ascending order, then (na_position="last") the rows
\* without one, in their original order.
sort_values(rows) ==
    MergeSort(SelectSeq(rows, LAMBDA r : ~isna(r.timestamp)))
    \o SelectSeq(rows, LAMBDA r : isna(r.timestamp))

Coerce(r) ==
    [src |-> r.src, timestamp |-> to_datetime(r.timestamp), service |-> AsStr(r.service),
     level |-> Upper(AsStr(r.level)), message |-> r.message,
     response_ms |-> to_numeric(r.response_ms)]

\* load_logs(path): the exception raised, or the normalized frame.
load_logs(f) ==
    IF ~f.exists THEN [error |-> FileNotFound, columns |-> {}, df |-> <<>>]
    ELSE IF validate_logs(f.columns) # NoError
         THEN [error |-> validate_logs(f.columns), columns |-> {}, df |-> <<>>]
         ELSE LET raw == read_csv(f)
              IN  [error |-> NoError, columns |-> f.columns,
                   df |-> sort_values([i \in 1..Len(raw) |-> Coerce(raw[i])])]

(***************************************************************************)
(* report_utils: filtering                                                 *)
(***************************************************************************)
\* Python truthiness of an optional string argument.
Truthy(a) == a # None /\ a # ""

\* A faulty variant: the level argument compared as given, without .upper().
ApplyFiltersCaseSensitive(d, service, level) ==
    LET byService == IF Truthy(service)
                     THEN SelectSeq(d, LAMBDA r : r.service = service)
                     ELSE d
    IN  IF Truthy(level)
        THEN SelectSeq(byService, LAMBDA r : r.level = level)
        ELSE byService

\* apply_filters(df, service, level) of report_utils.
apply_filters(d, service, level) ==
    LET byService == IF Truthy(service)
                     THEN SelectSeq(d, LAMBDA r : r.service = service)
                     ELSE d
    IN  IF Truthy(level)
        THEN SelectSeq(byService, LAMBDA r : r.level = Upper(level))
        ELSE byService

(***************************************************************************)
(* report_utils: report dataframes                                         *)
(***************************************************************************)
\* strftime("%H:%M:%S") of the times of the vocabulary.
Strftime(t) ==
    CASE t = 100000 -> "10:00:00"
      [] t = 90000 -> "09:00:00"
      [] t = 80000 -> "08:00:00"
      [] OTHER -> "??:??:??"

ExportHeader == <<"date", "time", "service", "level", "message", "response_ms">>

\* build_export_logs(df): [columns, rows]; date and time are missing for NaT.
build_export_logs(d) ==
    [columns |-> ExportHeader,
     rows |-> [i \in 1..Len(d) |->
                [date |-> IF isna(d[i].timestamp) THEN <<>> ELSE <<d[i].timestamp[1].date>>,
                 time |-> IF isna(d[i].timestamp) THEN NA
                          ELSE Strftime(d[i].timestamp[1].time),
                 service |-> d[i].service, level |-> d[i].level,
                 message |-> d[i].message, response_ms |-> d[i].response_ms]]]

RECURSIVE Distinct(_)
\* The distinct values of a sequence, in first-seen order.
Distinct(s) ==
    IF Len(s) = 0 THEN <<>>
    ELSE LET front == Distinct(SubSeq(s, 1, Len(s) - 1))
         IN  IF s[Len(s)] \in Range(front) THEN front ELSE Append(front, s[Len(s)])

Occurrences(s, v) == Cardinality({i \in 1..Len(s) : s[i] = v})

RECURSIVE InsertByCount(_, _)
\* Insert e after every entry whose count is at least e's (stable, descending).
InsertByCount(sorted, e) ==
    IF Len(sorted) = 0 THEN <<e>>
    ELSE IF sorted[1].count >= e.count
         THEN <<sorted[1]>> \o InsertByCount(Tail(sorted), e)
         ELSE <<e>> \o sorted

RECURSIVE SortByCountDesc(_)
SortByCountDesc(s) ==
    IF Len(s) = 0 THEN <<>>
    ELSE InsertByCount(SortByCountDesc(SubSeq(s, 1, Len(s) - 1)), s[Len(s)])

\* Series.value_counts(dropna=False): one [key, count] per distinct value, the
\* null value included, by descending count, ties in first-seen order.
value_counts(vals) ==
    LET keys == Distinct(vals)
    IN  SortByCountDesc([i \in 1..Len(keys) |->
                            [key |-> keys[i], count |-> Occurrences(vals, keys[i])]])

Levels(d) == [i \in 1..Len(d) |-> d[i].level]
Services(d) == [i \in 1..Len(d) |-> d[i].service]

\* A faulty variant: the rows counted as Series.count() of the timestamp column does,
\* leaving out the rows without a timestamp.
CountOfTimestamps(d) == Len(SelectSeq(d, LAMBDA r : ~isna(r.timestamp)))

\* total_rows = len(df)
TotalRowCount(d) == Len(d)

\* build_summary_tables(df): the key metrics and the two count tables.
build_summary_tables(d) ==
    [summary_df |-> << [metric |-> "total_rows", value |-> TotalRowCount(d)],
                       [metric |-> "error_count",
                        value |-> Occurrences(Levels(d), "ERROR")] >>,
     per_level |-> value_counts(Levels(d)),
     per_service |-> value_counts(Services(d))]

\* The labels a level cell can hold, in the order Python sorts strings.
LabelOrder == <<"ERROR", "ERROR_COUNT", "INFO", "NAN", "error", "error_count", "info">>

RECURSIVE SortedInts(_)
SortedInts(S) ==
    IF S = {} THEN <<>>
    ELSE LET m == CHOOSE x \in S : \A y \in S : x <= y
         IN  <<m>> \o SortedInts(S \ {m})

RECURSIVE SumOver(_, _)
\* The sum of a row's values in the given columns.
SumOver(row, cols) ==
    IF Len(cols) = 0 THEN 0 ELSE row[cols[1]] + SumOver(row, Tail(cols))

\* A faulty variant: the ERROR column left out of the total.
SumWithoutErrors(p, level_cols) ==
    SumOver(p, SelectSeq(level_cols, LAMBDA c : c # "ERROR"))

\* daily_pivot[level_cols].sum(axis=1), for the pivot row p.
TotalRows(p, level_cols) == SumOver(p, level_cols)

\* build_daily_summary(df): [columns, rows], a row being a function from the
\* column labels to integers (a date is its yyyymmdd number).  groupby drops
\* the rows whose date or level is null; aggfunc="count" counts the non-null
\* message cells of each (date, level) group; fill_value=0 fills the rest.
build_daily_summary(d) ==
    LET grp == SelectSeq(d, LAMBDA r : ~isna(r.timestamp) /\ r.level # NA)
        dates == SortedInts({grp[i].timestamp[1].date : i \in 1..Len(grp)})
        present == {grp[i].level : i \in 1..Len(grp)}
        level_cols == SelectSeq(LabelOrder, LAMBDA l : l \in present)
        Cell(dt, l) == Cardinality({i \in 1..Len(grp) :
                                       /\ grp[i].timestamp[1].date = dt
                                       /\ grp[i].level = l
                                       /\ grp[i].message # NA})
        Pivot(dt) == [c \in {"date"} \cup present |-> IF c = "date" THEN dt ELSE Cell(dt, c)]
        WithTotal(dt) ==
            LET p == Pivot(dt)
            IN  [c \in DOMAIN p \cup {"total_rows"} |->
                    IF c = "total_rows" THEN TotalRows(p, level_cols) ELSE p[c]]
        WithErrors(dt) ==
            LET q == WithTotal(dt)
            IN  [c \in DOMAIN q \cup {"error_count"} |->
                    IF c = "error_count"
                    THEN (IF "ERROR" \in DOMAIN q THEN q["ERROR"] ELSE 0)
                    ELSE q[c]]
        ordered_cols == <<"date", "total_rows", "error_count">>
                        \o SelectSeq(level_cols,
                                     LAMBDA c : c \notin {"total_rows", "error_count"})
    IN  [columns |-> ordered_cols,
         rows |-> [i \in 1..Len(dates) |->
                    [c \in Range(ordered_cols) |-> WithErrors(dates[i])[c]]]]

(***************************************************************************)
(* Workbooks.  A file at the output path is [exists, sheetnames, sheets],  *)
(* sheets[i] being the sheet named sheetnames[i]: its tables (each written *)
(* by to_excel at a 0-based startrow: the header lands on Excel row        *)
(* startrow + 1), its section titles, the rows styled as headers and the   *)
(* freeze pane.                                                            *)
(***************************************************************************)
NoFile == [exists |-> FALSE, sheetnames |-> <<>>, sheets |-> <<>>]

\* A file some earlier program left at the output path.
OldWorkbook ==
    [exists |-> TRUE, sheetnames |-> <<"Sheet1">>,
     sheets |-> << [tables |-> <<>>, titles |-> <<>>, styled |-> {}, freeze |-> ""] >>]

\* A file whose writing broke off: it holds no readable sheet.
DamagedFile == [exists |-> TRUE, sheetnames |-> <<>>, sheets |-> <<>>]

HasSheet(w, name) == \E i \in 1..Len(w.sheetnames) : w.sheetnames[i] = name

SheetOf(w, name) == w.sheets[CHOOSE i \in 1..Len(w.sheetnames) : w.sheetnames[i] = name]

Table(start, t) == [startrow |-> start, columns |-> t.columns, rows |-> t.rows]

PlainSheet(tables) == [tables |-> tables, titles |-> <<>>, styled |-> {}, freeze |-> ""]

\* A faulty variant: the start row fixed for a one-row level table, detached
\* from the table's row count.
PerServiceStartRowFixed(per_level_len) == 10

\* per_service_startrow = 9 + len(per_level)
PerServiceStartRow(per_level_len) == 9 + per_level_len

\* The `with pd.ExcelWriter(...)` block of report_utils.write_excel_report.
WrittenWorkbook(d) ==
    LET t == build_summary_tables(d)
        per_service_startrow == PerServiceStartRow(Len(t.per_level))
    IN  [exists |-> TRUE,
         sheetnames |-> <<"logs", "summary", "daily_summary">>,
         sheets |-> <<
            PlainSheet(<<Table(0, build_export_logs(d))>>),
            PlainSheet(<<
                Table(1, [columns |-> <<"metric", "value">>, rows |-> t.summary_df]),
                Table(6, [columns |-> <<"level", "count">>, rows |-> t.per_level]),
                Table(per_service_startrow,
                      [columns |-> <<"service", "count">>, rows |-> t.per_service]) >>),
            PlainSheet(<<Table(0, build_daily_summary(d))>>) >>]

\* A faulty variant: the section titles of the second and third table placed
\* two rows lower, onto the rows below the headers.
StyleWorkbookTitlesShifted(w, per_level_len) ==
    LET Styled(name, sh) ==
            IF name \in {"logs", "daily_summary"}
            THEN [sh EXCEPT !.styled = {1}, !.freeze = "A2"]
            ELSE IF name = "summary"
            THEN [sh EXCEPT
                    !.titles = << [row |-> 1, title |-> "Key Metrics"],
                                  [row |-> 8, title |-> "Counts by Level"],
                                  [row |-> 11 + per_level_len, title |-> "Counts by Service"] >>,
                    !.styled = {2, 7, 10 + per_level_len, 7 + per_level_len + 3},
                    !.freeze = "A3"]
            ELSE sh
    IN  [w EXCEPT !.sheets = [i \in 1..Len(w.sheets) |-> Styled(w.sheetnames[i], w.sheets[i])]]

\* style_workbook(xlsx_path, per_level_len) applied to the workbook w.
style_workbook(w, per_level_len) ==
    LET Styled(name, sh) ==
            IF name \in {"logs", "daily_summary"}
            THEN [sh EXCEPT !.styled = {1}, !.freeze = "A2"]
            ELSE IF name = "summary"
            THEN [sh EXCEPT
                    !.titles = << [row |-> 1, title |-> "Key Metrics"],
                                  [row |-> 6, title |-> "Counts by Level"],
                                  [row |-> 9 + per_level_len, title |-> "Counts by Service"] >>,
                    !.styled = {2, 7, 10 + per_level_len, 7 + per_level_len + 3},
                    !.freeze = "A3"]
            ELSE sh
    IN  [w EXCEPT !.sheets = [i \in 1..Len(w.sheets) |-> Styled(w.sheetnames[i], w.sheets[i])]]

\* A faulty variant: the daily_summary sheet never written.
WriteWithoutDailySheet(d) ==
    LET w == WrittenWorkbook(d)
    IN  style_workbook([w EXCEPT !.sheetnames = SubSeq(w.sheetnames, 1, 2),
                                 !.sheets = SubSeq(w.sheets, 1, 2)],
                       Len(build_summary_tables(d).per_level))

\* report_utils.write_excel_report(df, output_path), when no I/O step fails.
write_excel_report(d) ==
    style_workbook(WrittenWorkbook(d), Len(build_summary_tables(d).per_level))

(***************************************************************************)
(* main.py: the pipeline the command line runs                             *)
(***************************************************************************)
CoerceCsv(r) ==
    [src |-> r.src, timestamp |-> to_datetime(r.timestamp), service |-> r.service,
     level |-> r.level, message |-> r.message, response_ms |-> to_numeric(r.response_ms)]

\* main.load_csv(path): as load_logs, but level and service stay as read and
\* a date column is added.
load_csv(f) ==
    IF ~f.exists THEN [error |-> FileNotFound, columns |-> {}, df |-> <<>>]
    ELSE IF Len(MissingColumns(f.columns)) > 0
         THEN [error |-> validate_logs(f.columns), columns |-> {}, df |-> <<>>]
         ELSE LET raw == read_csv(f)
              IN  [error |-> NoError, columns |-> f.columns \cup {"date"},
                   df |-> sort_values([i \in 1..Len(raw) |-> CoerceCsv(raw[i])])]

\* main.apply_filters(df, service, level).
main_apply_filters(d, service, level) ==
    LET byService == IF Truthy(service)
                     THEN SelectSeq(d, LAMBDA r : AsStr(r.service) = service)
                     ELSE d
    IN  IF Truthy(level)
        THEN SelectSeq(byService, LAMBDA r : Upper(AsStr(r.level)) = Upper(level))
        ELSE byService

\* main.print_stats(df): what it prints; a warning line only for a count > 0.
print_stats(d) ==
    LET bad_ts == Cardinality({i \in 1..Len(d) : isna(d[i].timestamp)})
        bad_ms == Cardinality({i \in 1..Len(d) : isna(d[i].response_ms)})
    IN  [total_rows |-> Len(d),
         per_level |-> value_counts(Levels(d)),
         per_service |-> value_counts(Services(d)),
         warnings |->
            (IF bad_ts > 0 THEN << [text |-> "- Invalid timestamps: ", count |-> bad_ts] >>
             ELSE <<>>)
            \o (IF bad_ms > 0
                THEN << [text |-> "- Invalid response_ms values: ", count |-> bad_ms] >>
                ELSE <<>>)]

\* main.write_excel_report(df, output_path), when no I/O step fails.
main_write_excel_report(d) ==
    LET per_level == value_counts(Levels(d))
        per_service == value_counts(Services(d))
        summary_df == << [metric |-> "total_rows", value |-> Len(d)],
                         [metric |-> "error_count",
                          value |-> Occurrences(Levels(d), "ERROR")] >>
    IN  [exists |-> TRUE,
         sheetnames |-> <<"logs", "summary">>,
         sheets |-> <<
            [PlainSheet(<<Table(0, build_export_logs(d))>>) EXCEPT !.freeze = "A2"],
            PlainSheet(<<
                Table(0, [columns |-> <<"metric", "value">>, rows |-> summary_df]),
                Table(5, [columns |-> <<"level", "count">>, rows |-> per_level]),
                Table(5 + Len(per_level) + 3,
                      [columns |-> <<"service", "count">>, rows |-> per_service]) >>) >>]

(***************************************************************************)
(* State                                                                   *)
(***************************************************************************)
VARIABLES
    mode,        \* "cli": cli.run / main.main;  "lib": a caller of report_utils
    pc,          \* the caller's position
    file,        \* what the input path names
    args,        \* [service, level]: --service / --level, or apply_filters' arguments
    wb,          \* what the output path names
    df,          \* the current frame
    columns,     \* its column labels
    loaded,      \* the frame as the loader returned it
    error,       \* the exception raised, NoError if none
    stats,       \* <<what print_stats printed>>, <<>> before
    summary,     \* <<build_summary_tables' result>>, <<>> before
    daily,       \* <<build_daily_summary's result>>, <<>> before
    writerCalls, \* calls of a write_excel_report
    exitCode,    \* <<main()'s return value>>, <<>> before
    exitStatus   \* <<the process exit status>>, <<>> before

vars == <<mode, pc, file, args, wb, df, columns, loaded, error, stats, summary, daily,
          writerCalls, exitCode, exitStatus>>

Init ==
    /\ mode \in {"cli", "lib"}
    /\ pc = "start"
    /\ file \in InputFiles
    /\ args \in [service : ServiceArgs, level : LevelArgs]
    /\ wb \in {NoFile, OldWorkbook}
    /\ df = <<>>
    /\ columns = {}
    /\ loaded = <<>>
    /\ error = NoError
    /\ stats = <<>>
    /\ summary = <<>>
    /\ daily = <<>>
    /\ writerCalls = 0
    /\ exitCode = <<>>
    /\ exitStatus = <<>>

\* How a write_excel_report call can end: every step succeeds; mkdir raises
\* (nothing is touched); saving raises (the file is left broken off); and, for
\* report_utils, the styling pass raises after the workbook was saved.
WriteOutcomes == {"ok", "mkdir_raises", "save_raises", "style_raises"}

OutputError == [type |-> "OSError", message |-> <<"cannot write ", "path">>]

(***************************************************************************)
(* report_utils, called as a library                                       *)
(***************************************************************************)
\* validate_logs(df) on the frame read from the file.
ValidateLogs ==
    /\ mode = "lib" /\ pc = "start" /\ file.exists
    /\ error' = validate_logs(file.columns)
    /\ pc' = IF error' = NoError THEN "validated" ELSE "raised"
    /\ UNCHANGED <<mode, file, args, wb, df, columns, loaded, stats, summary, daily,
                   writerCalls, exitCode, exitStatus>>

\* df = load_logs(path)
LoadLogs ==
    /\ mode = "lib" /\ pc = "start"
    /\ LET r == load_logs(file)
       IN  /\ error' = r.error
           /\ df' = r.df
           /\ loaded' = r.df
           /\ columns' = r.columns
           /\ pc' = IF r.error = NoError THEN "loaded" ELSE "raised"
    /\ UNCHANGED <<mode, file, args, wb, stats, summary, daily, writerCalls, exitCode,
                   exitStatus>>

\* df = apply_filters(df, service, level)
ApplyFilters ==
    /\ mode = "lib" /\ pc = "loaded"
    /\ df' = apply_filters(df, args.service, args.level)
    /\ pc' = "filtered"
    /\ UNCHANGED <<mode, file, args, wb, columns, loaded, error, stats, summary, daily,
                   writerCalls, exitCode, exitStatus>>

\* build_summary_tables(df)
BuildSummaryTables ==
    /\ mode = "lib" /\ pc = "filtered"
    /\ summary' = <<build_summary_tables(df)>>
    /\ pc' = "summarized"
    /\ UNCHANGED <<mode, file, args, wb, df, columns, loaded, error, stats, daily,
                   writerCalls, exitCode, exitStatus>>

\* build_daily_summary(df)
BuildDailySummary ==
    /\ mode = "lib" /\ pc = "summarized"
    /\ daily' = <<build_daily_summary(df)>>
    /\ pc' = "pivoted"
    /\ UNCHANGED <<mode, file, args, wb, df, columns, loaded, error, stats, summary,
                   writerCalls, exitCode, exitStatus>>

\* write_excel_report(df, output_path): it has no handler, so a failing step
\* raises to the caller.
WriteExcelReport ==
    /\ mode = "lib" /\ pc = "pivoted"
    /\ \E outcome \in WriteOutcomes :
          /\ wb' = CASE outcome = "ok" -> write_excel_report(df)
                     [] outcome = "mkdir_raises" -> wb
                     [] outcome = "save_raises" -> DamagedFile
                     [] outcome = "style_raises" -> WrittenWorkbook(df)
          /\ error' = IF outcome = "ok" THEN NoError ELSE OutputError
          /\ pc' = IF outcome = "ok" THEN "written" ELSE "raised"
    /\ writerCalls' = writerCalls + 1
    /\ UNCHANGED <<mode, file, args, df, columns, loaded, stats, summary, daily, exitCode,
                   exitStatus>>

(***************************************************************************)
(* The command line: cli.run -> main.main                                  *)
(***************************************************************************)
\* The value main() returns from an `except Exception` handler.
HandlerReturn(e) == 1

\* df = load_csv(input_path), inside main's first try block.
LoadCsv ==
    /\ mode = "cli" /\ pc = "start"
    /\ LET r == load_csv(file)
       IN  /\ error' = r.error
           /\ df' = r.df
           /\ loaded' = r.df
           /\ columns' = r.columns
           /\ pc' = IF r.error = NoError THEN "loaded" ELSE "returned"
           /\ exitCode' = IF r.error = NoError THEN <<>> ELSE <<HandlerReturn(r.error)>>
    /\ UNCHANGED <<mode, file, args, wb, stats, summary, daily, writerCalls, exitStatus>>

\* A faulty variant: no early return for an empty frame.
MainApplyFiltersNoEmptyCheck ==
    /\ mode = "cli" /\ pc = "loaded"
    /\ df' = main_apply_filters(df, args.service, args.level)
    /\ pc' = "filtered"
    /\ UNCHANGED <<mode, file, args, wb, columns, loaded, error, stats, summary, daily,
                   writerCalls, exitCode, exitStatus>>

\* df = apply_filters(df, args.service, args.level); if df.empty: return 0
MainApplyFilters ==
    /\ mode = "cli" /\ pc = "loaded"
    /\ df' = main_apply_filters(df, args.service, args.level)
    /\ pc' = IF Len(df') = 0 THEN "returned" ELSE "filtered"
    /\ exitCode' = IF Len(df') = 0 THEN <<0>> ELSE <<>>
    /\ UNCHANGED <<mode, file, args, wb, columns, loaded, error, stats, summary, daily,
                   writerCalls, exitStatus>>

\* print_stats(df)
PrintStats ==
    /\ mode = "cli" /\ pc = "filtered"
    /\ stats' = <<print_stats(df)>>
    /\ pc' = "stats"
    /\ UNCHANGED <<mode, file, args, wb, df, columns, loaded, error, summary, daily,
                   writerCalls, exitCode, exitStatus>>

\* main's second try block: write_excel_report(df, output_path), return 1 from
\* the handler, else return 0.
MainWriteExcelReport ==
    /\ mode = "cli" /\ pc = "stats"
    /\ \E outcome \in WriteOutcomes \ {"style_raises"} :
          /\ wb' = CASE outcome = "ok" -> main_write_excel_report(df)
                     [] outcome = "mkdir_raises" -> wb
                     [] outcome = "save_raises" -> DamagedFile
          /\ error' = IF outcome = "ok" THEN NoError ELSE OutputError
          /\ exitCode' = IF outcome = "ok" THEN <<0>> ELSE <<HandlerReturn(OutputError)>>
    /\ writerCalls' = writerCalls + 1
    /\ pc' = "returned"
    /\ UNCHANGED <<mode, file, args, df, columns, loaded, stats, summary, daily,
                   exitStatus>>

\* cli.run: raise SystemExit(main())
Run ==
    /\ mode = "cli" /\ pc = "returned"
    /\ exitStatus' = exitCode
    /\ pc' = "exited"
    /\ UNCHANGED <<mode, file, args, wb, df, columns, loaded, error, stats, summary, daily,
                   writerCalls, exitCode>>

Next ==
    \/ ValidateLogs
    \/ LoadLogs
    \/ ApplyFilters
    \/ BuildSummaryTables
    \/ BuildDailySummary
    \/ WriteExcelReport
    \/ LoadCsv
    \/ MainApplyFilters
    \/ PrintStats
    \/ MainWriteExcelReport
    \/ Run

Spec == Init /\ [][Next]_vars

(***************************************************************************)
(* Properties                                                              *)
(***************************************************************************)
\* The column labels that occur in an exception message.
NamedIn(message) == {c \in ColumnLabels : c \in Range(message)}

\* The list a schema message gives after "Missing columns: ", and the one it
\* gives after "Expected columns: ".
MissingListOf(message) == SubSeq(message, 2, Len(message) - Len(REQUIRED_COLUMNS) - 1)
ExpectedListOf(message) ==
    SubSeq(message, Len(message) - Len(REQUIRED_COLUMNS) + 1, Len(message))

\* The frame of the file has been validated (by validate_logs, load_logs or
\* load_csv); a schema failure is the only ValueError there is.
ValidationRan == file.exists /\ pc # "start"
SchemaFailed == error.type = "ValueError"
AbsentRequired == Range(REQUIRED_COLUMNS) \ file.columns

\* C1 as stated: validation fails iff a required column is absent, and the
\* error message names every missing required column and no column that is
\* present.
C1_MessageNamesOnlyMissing ==
    ValidationRan =>
        /\ SchemaFailed <=> AbsentRequired # {}
        /\ SchemaFailed => NamedIn(error.message) = AbsentRequired

\* C1 (amended): validation fails iff a required column is absent, whatever
\* extra columns there are; on failure the message's "Missing columns" list
\* holds every missing required column and no column that is present, and
\* its "Expected columns" list is the full required list.
C1_MissingListExact ==
    ValidationRan =>
        /\ SchemaFailed <=> AbsentRequired # {}
        /\ SchemaFailed =>
              /\ Range(MissingListOf(error.message)) = AbsentRequired
              /\ Len(MissingListOf(error.message)) = Cardinality(AbsentRequired)
              /\ ExpectedListOf(error.message) = REQUIRED_COLUMNS

C1_Witness ==
    /\ mode = "lib" /\ pc = "raised" /\ SchemaFailed
    /\ Cardinality(AbsentRequired) = 2
    /\ ExtraColumn \in file.columns

\* The exit status C2 states for the run that has ended.
StatedExitStatus ==
    IF ~file.exists THEN 2
    ELSE IF error.type = "OSError" THEN 3
    ELSE IF error # NoError THEN 1
    ELSE 0

\* C2 as stated: the exit status is 0 on success (zero rows after filtering
\* included), 2 when the input file does not exist, 3 when the workbook cannot
\* be written, and 1 for every other error.
C2_ExitCodes == (mode = "cli" /\ pc = "exited") => exitStatus = <<StatedExitStatus>>

\* main() loaded the file and the filters left no row.
ZeroRowsAfterFiltering ==
    mode = "cli" /\ pc \in {"returned", "exited"} /\ error = NoError /\ Len(df) = 0

\* C3: when the filtered dataset has zero rows, main() returns 0, no
\* write_excel_report call is made and the output path is as it was before
\* the run.
C3_ZeroRowsSkipsWriting ==
    ZeroRowsAfterFiltering =>
        /\ exitCode = <<0>>
        /\ pc = "exited" => exitStatus = <<0>>
        /\ writerCalls = 0
        /\ wb \in {NoFile, OldWorkbook}

C3_Witness ==
    /\ ZeroRowsAfterFiltering /\ pc = "exited"
    /\ Len(loaded) >= 2 /\ args.service = "api" /\ wb = OldWorkbook

\* The level columns of a daily summary: all but date, total_rows, error_count.
OutputLevelColumns(t) ==
    SelectSeq(t.columns, LAMBDA c : c \notin {"date", "total_rows", "error_count"})

TotalsAreLevelSums(t) ==
    \A i \in 1..Len(t.rows) :
        t.rows[i]["total_rows"] = SumOver(t.rows[i], OutputLevelColumns(t))

\* C4: every row of build_daily_summary's output (as returned, and as written
\* to the daily_summary sheet) has total_rows equal to the sum of the row's
\* level columns.
C4_TotalIsSumOfLevels ==
    /\ daily # <<>> => TotalsAreLevelSums(daily[1])
    /\ (mode = "lib" /\ HasSheet(wb, "daily_summary")) =>
          TotalsAreLevelSums(SheetOf(wb, "daily_summary").tables[1])

C4_Witness ==
    /\ daily # <<>>
    /\ Len(daily[1].rows) = 2
    /\ Len(OutputLevelColumns(daily[1])) >= 2
    /\ \E i \in 1..Len(daily[1].rows) :
          daily[1].rows[i]["total_rows"] = 2 /\ daily[1].rows[i]["error_count"] = 1

RECURSIVE SumCounts(_)
SumCounts(t) == IF Len(t) = 0 THEN 0 ELSE t[1].count + SumCounts(Tail(t))

\* C5: the counts of the counts-by-level table add up to the key-metrics
\* total_rows, which is the number of records of the dataset; every record's
\* level, the text of a missing level included, has its bucket.
C5_LevelCountsSumToTotal ==
    summary # <<>> =>
        LET t == summary[1]
        IN  /\ t.summary_df[1].metric = "total_rows"
            /\ SumCounts(t.per_level) = t.summary_df[1].value
            /\ t.summary_df[1].value = Len(df)
            /\ \A i \in 1..Len(df) :
                  \E k \in 1..Len(t.per_level) : t.per_level[k].key = df[i].level

C5_Witness ==
    /\ summary # <<>>
    /\ Len(df) = 3
    /\ Len(summary[1].per_level) = 2
    /\ \E k \in 1..2 : summary[1].per_level[k].key = "NAN"
    /\ \E i \in 1..3 : isna(df[i].timestamp)

\* load_logs has returned a frame to the library caller.
LoadLogsReturned ==
    /\ mode = "lib"
    /\ \/ pc \in {"loaded", "filtered", "summarized", "pivoted", "written"}
       \/ pc = "raised" /\ writerCalls > 0

\* apply_filters has returned to the library caller.
FiltersApplied == LoadLogsReturned /\ pc # "loaded"

PositionIn(d, r) == CHOOSE k \in 1..Len(d) : d[k].src = r.src

\* df holds exactly the records of the loaded frame that match the arguments
\* that count as given, each once and in the loaded frame's order.  An
\* argument is given when it is not None and, unless emptyFilters, not "".
FilterResultIs(emptyFilters) ==
    LET Given(a) == a # None /\ (emptyFilters \/ a # "")
        Selected(r) ==
            /\ Given(args.service) => r.service = args.service
            /\ Given(args.level) => r.level = Upper(args.level)
    IN  /\ \A i \in 1..Len(df) : df[i] \in Range(loaded) /\ Selected(df[i])
        /\ \A j \in 1..Len(loaded) :
              Selected(loaded[j]) => \E i \in 1..Len(df) : df[i] = loaded[j]
        /\ \A i, j \in 1..Len(df) :
              i < j => PositionIn(loaded, df[i]) < PositionIn(loaded, df[j])

\* "error" and "ERROR" select the same rows, and main.apply_filters agrees
\* with report_utils.apply_filters on the normalized frame.
LevelCaseIgnored ==
    /\ apply_filters(loaded, args.service, "error")
          = apply_filters(loaded, args.service, "ERROR")
    /\ main_apply_filters(loaded, args.service, "error")
          = main_apply_filters(loaded, args.service, "ERROR")
    /\ main_apply_filters(loaded, args.service, args.level) = df

\* C6 as stated: an argument filters whenever it is given (not None), an
\* absent one passes all records.
C6_FiltersWhenGiven ==
    FiltersApplied => FilterResultIs(TRUE) /\ LevelCaseIgnored

\* C6 (amended): an argument filters when it is a non-empty string; an absent
\* (None) or empty one passes all records.
C6_FiltersWhenNonEmpty ==
    FiltersApplied => FilterResultIs(FALSE) /\ LevelCaseIgnored

C6_Witness ==
    /\ FiltersApplied
    /\ args.service = "api" /\ args.level = "error"
    /\ Len(df) >= 1 /\ Len(df) < Len(loaded)
    /\ \E j \in 1..Len(loaded) : loaded[j].service = "API"

\* Timestamp a sorts strictly before b: NaT sorts after every value.
Before(a, b) == ~isna(a) /\ (isna(b) \/ TsLess(a[1], b[1]))

\* C7: load_logs returns the input's records in ascending timestamp order,
\* the records without a timestamp last, records with equal (or all missing)
\* timestamps in input order; an input already in that order keeps its order.
C7_SortedStable ==
    LoadLogsReturned =>
        /\ Len(loaded) = Len(file.rows)
        /\ {loaded[i].src : i \in 1..Len(loaded)} = 1..Len(file.rows)
        /\ \A i, j \in 1..Len(loaded) :
              i < j =>
                /\ ~Before(loaded[j].timestamp, loaded[i].timestamp)
                /\ loaded[i].timestamp = loaded[j].timestamp =>
                      loaded[i].src < loaded[j].src
        /\ (\A i, j \in 1..Len(file.rows) :
               i < j => ~Before(to_datetime(file.rows[j].timestamp),
                                to_datetime(file.rows[i].timestamp)))
           => \A i \in 1..Len(loaded) : loaded[i].src = i

C7_Witness ==
    /\ LoadLogsReturned /\ pc = "loaded"
    /\ Len(loaded) = 3
    /\ isna(loaded[3].timestamp) /\ loaded[3].src = 1
    /\ loaded[1].timestamp = loaded[2].timestamp
    /\ loaded[1].message # loaded[2].message

\* The cells that parse.
ValidTimestamps == {"2025-01-01 10:00:00", "2025-01-01 09:00:00", "2025-01-02 08:00:00"}
Numerals == {"12", "0"}

WarningCount(text) ==
    LET lines == SelectSeq(stats[1].warnings, LAMBDA w : w.text = text)
    IN  IF Len(lines) = 0 THEN 0 ELSE lines[1].count

\* C8: with all required columns present load_logs does not raise and keeps
\* every record and column; a cell that does not parse becomes the missing
\* marker (never zero), one that parses a value; the warning counts the run
\* prints are the numbers of records with those markers, which are the
\* records whose cells did not parse.
C8_BadCellsKeptAsMissing ==
    /\ (mode = "lib" /\ pc = "raised" /\ writerCalls = 0) =>
          ~(file.exists /\ Range(REQUIRED_COLUMNS) \subseteq file.columns)
    /\ LoadLogsReturned =>
          /\ Len(loaded) = Len(file.rows)
          /\ columns = file.columns
          /\ \A i \in 1..Len(loaded) :
                LET raw == file.rows[loaded[i].src]
                IN  /\ isna(loaded[i].timestamp) <=> raw.timestamp \notin ValidTimestamps
                    /\ isna(loaded[i].response_ms) <=> raw.response_ms \notin Numerals
                    /\ loaded[i].message = raw.message
    /\ (mode = "cli" /\ stats # <<>>) =>
          /\ WarningCount("- Invalid timestamps: ")
                = Cardinality({i \in 1..Len(df) : isna(df[i].timestamp)})
          /\ WarningCount("- Invalid timestamps: ")
                = Cardinality({i \in 1..Len(df) :
                                  file.rows[df[i].src].timestamp \notin ValidTimestamps})
          /\ WarningCount("- Invalid response_ms values: ")
                = Cardinality({i \in 1..Len(df) : isna(df[i].response_ms)})
          /\ WarningCount("- Invalid response_ms values: ")
                = Cardinality({i \in 1..Len(df) :
                                  file.rows[df[i].src].response_ms \notin Numerals})

C8_Witness ==
    /\ mode = "cli" /\ stats # <<>>
    /\ Len(df) = 3
    /\ WarningCount("- Invalid timestamps: ") = 1
    /\ WarningCount("- Invalid response_ms values: ") = 2

\* The cells of a sheet's first row: the header of the table written at
\* startrow 0, if there is one.
FirstRow(sh) ==
    LET at0 == {k \in 1..Len(sh.tables) : sh.tables[k].startrow = 0}
    IN  IF at0 = {} THEN <<>> ELSE sh.tables[CHOOSE k \in at0 : TRUE].columns

ReportSheets == {"logs", "summary", "daily_summary"}

\* C9: a report_utils.write_excel_report call on a non-empty frame that
\* returns leaves a workbook with exactly the sheets logs, summary and
\* daily_summary, the logs header date, time, service, level, message,
\* response_ms, and a date column on daily_summary.
C9_ThreeSheets ==
    (mode = "lib" /\ pc = "written" /\ Len(df) > 0) =>
        /\ wb.exists
        /\ Len(wb.sheetnames) = 3
        /\ Range(wb.sheetnames) = ReportSheets
        /\ FirstRow(SheetOf(wb, "logs")) = ExportHeader
        /\ "date" \in Range(FirstRow(SheetOf(wb, "daily_summary")))

C9_Witness ==
    /\ mode = "lib" /\ pc = "written"
    /\ Len(df) >= 2
    /\ Len(SheetOf(wb, "daily_summary").tables[1].rows) >= 1
    /\ Len(SheetOf(wb, "logs").tables[1].rows) = Len(df)

\* C10 as stated: a command-line run that exits with status 0 on a non-empty
\* filtered dataset has written a workbook with exactly the sheets logs,
\* summary and daily_summary.
C10_CliWritesThreeSheets ==
    (mode = "cli" /\ pc = "exited" /\ exitStatus = <<0>> /\ Len(df) > 0) =>
        /\ wb.exists
        /\ Range(wb.sheetnames) = ReportSheets

\* The Excel rows of table k of a sheet: its header, its last row (the header
\* when it has no data row) and its section title.
HeaderRow(sh, k) == sh.tables[k].startrow + 1
LastRow(sh, k) == HeaderRow(sh, k) + Len(sh.tables[k].rows)
TitleRow(sh, k) == sh.titles[k].row

\* report_utils.write_excel_report has returned: the workbook is written and
\* styled.
ReportWritten == mode = "lib" /\ pc = "written"

SummaryTitles == <<"Key Metrics", "Counts by Level", "Counts by Service">>
SummaryHeaders == << <<"metric", "value">>, <<"level", "count">>, <<"service", "count">> >>

\* C11: on the summary sheet the three tables (title row, header row, data
\* rows) occupy disjoint row ranges in the order KeyMetrics, CountsByLevel,
\* CountsByService, whatever the row counts; each section title is on the row
\* directly above the header written for the same table; and every row styled
\* as a header is a header row that was written.
C11_SummaryLayoutDisjoint ==
    ReportWritten =>
        LET sh == SheetOf(wb, "summary")
        IN  /\ Len(sh.tables) = 3 /\ Len(sh.titles) = 3
            /\ \A k \in 1..3 :
                  /\ sh.titles[k].title = SummaryTitles[k]
                  /\ sh.tables[k].columns = SummaryHeaders[k]
                  /\ TitleRow(sh, k) >= 1
                  /\ TitleRow(sh, k) + 1 = HeaderRow(sh, k)
            /\ \A k \in 1..2 : LastRow(sh, k) < TitleRow(sh, k + 1)
            /\ sh.styled = {HeaderRow(sh, k) : k \in 1..3}

C11_Witness ==
    /\ ReportWritten
    /\ Len(SheetOf(wb, "summary").tables[2].rows) = 3
    /\ Len(SheetOf(wb, "summary").tables[3].rows) = 2

\* C11 holds for the empty level table too (no record left by the filters).
C11_WitnessEmpty ==
    /\ ReportWritten
    /\ Len(SheetOf(wb, "summary").tables[2].rows) = 0

\* The blank rows between the last row of table k and the title of table k + 1.
BlankRowsAfter(sh, k) == TitleRow(sh, k + 1) - LastRow(sh, k) - 1

\* C12 as stated: between the last data row of each summary table and the
\* title row of the next there are exactly three blank rows.
C12_ThreeBlankRows ==
    ReportWritten => \A k \in 1..2 : BlankRowsAfter(SheetOf(wb, "summary"), k) = 3

\* C12 (amended): between the last data row of each summary table and the
\* title row of the next there is exactly one blank row, at both boundaries
\* and for every row count of the counts-by-level table.
C12_OneBlankRow ==
    ReportWritten => \A k \in 1..2 : BlankRowsAfter(SheetOf(wb, "summary"), k) = 1

C12_Witness ==
    /\ ReportWritten
    /\ Len(SheetOf(wb, "summary").tables[2].rows) = 2
    /\ TitleRow(SheetOf(wb, "summary"), 3) = 11
    /\ LastRow(SheetOf(wb, "summary"), 2) = 9

\* The value of a key metric on the written summary sheet.
KeyMetric(w, name) ==
    LET rows == SheetOf(w, "summary").tables[1].rows
    IN  rows[CHOOSE k \in 1..Len(rows) : rows[k].metric = name].value

\* main.write_excel_report has returned and main() returned 0 after it.
CliReportWritten ==
    mode = "cli" /\ pc \in {"returned", "exited"} /\ exitCode = <<0>> /\ Len(df) > 0

\* The records of the report whose level, upper-cased, is ERROR.
ErrorRecords == {i \in 1..Len(df) : Upper(AsStr(df[i].level)) = "ERROR"}

\* C13 as stated: in both pipelines the key-metrics error_count of the report
\* is the number of reported records whose level, upper-cased, is "ERROR".
C13_ErrorCountIgnoresCase ==
    (ReportWritten \/ CliReportWritten) =>
        KeyMetric(wb, "error_count") = Cardinality(ErrorRecords)

\* The report_utils half of C13, which the code meets.
C13_LibErrorCount ==
    ReportWritten => KeyMetric(wb, "error_count") = Cardinality(ErrorRecords)

\* The records of the frame whose timestamp falls on the date dt.
RecordsOn(dt) ==
    {i \in 1..Len(df) : ~isna(df[i].timestamp) /\ df[i].timestamp[1].date = dt}

RECURSIVE SumTotals(_)
SumTotals(rows) ==
    IF Len(rows) = 0 THEN 0 ELSE rows[1]["total_rows"] + SumTotals(Tail(rows))

\* C14 as stated: each date row's total_rows is the number of records whose
\* timestamp falls on that date, records with a missing message included, and
\* the totals add up to the number of records that have a timestamp.
C14_TotalsCountRecords ==
    daily # <<>> =>
        /\ \A k \in 1..Len(daily[1].rows) :
              daily[1].rows[k]["total_rows"]
                 = Cardinality(RecordsOn(daily[1].rows[k]["date"]))
        /\ SumTotals(daily[1].rows)
              = Cardinality({i \in 1..Len(df) : ~isna(df[i].timestamp)})

\* What the code does instead: total_rows counts the records of the date
\* whose message cell is not null.
C14_TotalsCountMessages ==
    daily # <<>> =>
        \A k \in 1..Len(daily[1].rows) :
            daily[1].rows[k]["total_rows"]
               = Cardinality({i \in RecordsOn(daily[1].rows[k]["date"]) :
                                 df[i].message # NA})

====
